---- MODULE Spec2Model ----
(***************************************************************************)
(* State-machine model of the todo-list core: Todo, Project,               *)
(* ProjectManager, the Storage wrapper around localStorage and the         *)
(* controller's event handlers.                                            *)
(*                                                                         *)
(* JavaScript values are encoded as follows.                               *)
(*   - Strings are TLA+ strings; the values undefined and null of a string *)
(*     typed argument are the reserved strings Undefined and JsNull.       *)
(*   - A Date object holding day d is the string "Date:" \o d, the JSON    *)
(*     text of that Date (Date.prototype.toJSON) is d \o "T00:00:00.000Z". *)
(*   - Identifiers (crypto.randomUUID) are the naturals 1, 2, ... in the   *)
(*     order of generation; Null stands for null and UndefinedId for the   *)
(*     undefined that ref?.id yields on a null reference or that a call    *)
(*     without the argument passes.                                        *)
(*   - Project objects live in projectManager.heap, keyed by an object     *)
(*     reference; two references are the same object iff they are equal    *)
(*     (===).  Objects that no field of the manager reaches are dropped    *)
(*     from the heap and their references are reused, since identity can   *)
(*     only be observed through a reachable reference.                     *)
(***************************************************************************)
EXTENDS Integers, Sequences, FiniteSets

VARIABLES
    projectManager,  \* the exported singleton: [projects, activeProject,
                     \* defaultProject] hold references, heap the objects
    localStorage,    \* <<>> when the key is absent, else <<the parsed JSON text>>
    nextId,          \* the next identifier crypto.randomUUID returns
    savedFrom,       \* history: the manager state the stored value was written
                     \* from by saveToStorage (the empty one when it was not)
    phase            \* Spec: whether the last call was loadFromStorage;
                     \* RoundTripSpec: position in the save/reload scenario;
                     \* CtlSpec: the handler that ran last;
                     \* StorageSpec: whether the last call returned or threw;
                     \* EntitySpec: whether the last call was a
                     \* deleteTodoById that removed a todo

vars == <<projectManager, localStorage, nextId, savedFrom, phase>>

(* ------------------------------ bounds -------------------------------- *)

\* Number of identifiers crypto.randomUUID may hand out to created objects.
MaxIds == 3

\* Number of todos one project may hold.
MaxTodos == 1

(* --------------------------- JavaScript values ------------------------ *)

Null == 0

UndefinedId == -1

Undefined == "<undefined>"

JsNull == "<null>"

\* The strings for which String.prototype.trim returns "".
WhitespaceOnly == {"", "  "}

\* !val for a string-typed argument: undefined, null and "" are falsy.
Falsy(val) == val \in {Undefined, JsNull, ""}

\* !val || val.trim() === ""
Blank(val) == Falsy(val) \/ val \in WhitespaceOnly

\* Default parameter value: used only when the argument is undefined.
Default(val, dflt) == IF val = Undefined THEN dflt ELSE val

\* Days a date input can name.
Days == {"2025-11-01"}

DateObject(day) == "Date:" \o day

IsoText(day) == day \o "T00:00:00.000Z"

\* new Date(val) for the date-valued inputs: a "YYYY-MM-DD" string, the ISO
\* text written by JSON.stringify, or a Date object (copied).
NewDate(val) ==
    IF \E d \in Days : val \in {d, IsoText(d), DateObject(d)}
    THEN DateObject(CHOOSE d \in Days : val \in {d, IsoText(d), DateObject(d)})
    ELSE "Invalid Date"

\* val ? new Date(val) : null
ToDueDate(val) == IF Falsy(val) THEN JsNull ELSE NewDate(val)

\* JSON.stringify followed by JSON.parse of a dueDate field: a Date becomes
\* its ISO text, an invalid Date and null become null.
DateToJSON(val) ==
    IF \E d \in Days : val = DateObject(d)
    THEN IsoText(CHOOSE d \in Days : val = DateObject(d))
    ELSE JsNull

(* ------------------------------ Priorities ---------------------------- *)

URGENT == "Urgent"

IMPORTANT == "Important"

LOW == "Low"

(* --------------------------------- Todo ------------------------------- *)

\* Todo.constructor
Todo(id, title, description, dueDate, priority) ==
    [ id          |-> id,
      title       |-> IF Blank(Default(title, "Untitled Todo"))
                      THEN "Untitled Todo" ELSE Default(title, "Untitled Todo"),
      description |-> Default(description, ""),
      dueDate     |-> ToDueDate(dueDate),
      priority    |-> Default(priority, IMPORTANT),
      completed   |-> FALSE,
      expanded    |-> FALSE ]

\* Todo.toggleCompleted
toggleCompleted(todo) == [todo EXCEPT !.completed = ~todo.completed]

\* Todo.toggleExpanded
toggleExpanded(todo) == [todo EXCEPT !.expanded = ~todo.expanded]

\* Todo set title
setTitle(todo, val) ==
    [todo EXCEPT !.title = IF Blank(val) THEN "Untitled Todo" ELSE val]

\* Todo set dueDate
setDueDate(todo, val) == [todo EXCEPT !.dueDate = ToDueDate(val)]

\* An updateData that assigns all four fields, given or not.
updateData_AssignsAll(todo, patch) ==
    [setDueDate(setTitle(todo, patch.title), patch.dueDate)
        EXCEPT !.description = patch.description, !.priority = patch.priority]

\* Todo.updateData: a field of the patch that is undefined is skipped.
updateData(todo, patch) ==
    LET t1 == IF patch.title # Undefined THEN setTitle(todo, patch.title) ELSE todo
        t2 == IF patch.description # Undefined
              THEN [t1 EXCEPT !.description = patch.description] ELSE t1
        t3 == IF patch.dueDate # Undefined THEN setDueDate(t2, patch.dueDate) ELSE t2
    IN  IF patch.priority # Undefined
        THEN [t3 EXCEPT !.priority = patch.priority] ELSE t3

\* Todo set info: a field of the patch that is missing, undefined or null
\* keeps the todo's value (??); a falsy dueDate keeps the todo's dueDate.
setInfo(todo, patch) ==
    LET Has(field) == field \in DOMAIN patch
        Given(field) == Has(field) /\ patch[field] \notin {Undefined, JsNull}
    IN  [ id          |-> IF Has("id") /\ patch.id \notin {UndefinedId, Null}
                          THEN patch.id ELSE todo.id,
          title       |-> IF Given("title") THEN patch.title ELSE todo.title,
          description |-> IF Given("description")
                          THEN patch.description ELSE todo.description,
          dueDate     |-> IF Has("dueDate") /\ ~Falsy(patch.dueDate)
                          THEN NewDate(patch.dueDate) ELSE todo.dueDate,
          priority    |-> IF Given("priority")
                          THEN patch.priority ELSE todo.priority,
          completed   |-> IF Has("completed")
                          THEN patch.completed ELSE todo.completed,
          expanded    |-> IF Has("expanded")
                          THEN patch.expanded ELSE todo.expanded ]

(* -------------------------------- Project ----------------------------- *)

\* Project.constructor
Project(id, name) ==
    [ id    |-> id,
      name  |-> IF Blank(Default(name, "Untitled Project"))
                THEN "Untitled Project" ELSE Default(name, "Untitled Project"),
      todos |-> <<>> ]

\* Project.setId
setId(project, id) == [project EXCEPT !.id = id]

\* A rename that constructs the project anew.
setName_NewProject(project, name) == Project(Null, name)

\* A setName that stores its argument as given.
setName_AsGiven(project, name) == [project EXCEPT !.name = name]

\* Project.setName
setName(project, name) ==
    [project EXCEPT !.name = IF Blank(name) THEN "Untitled Project" ELSE name]

\* A createTodo that puts the new todo first.
createTodo_Unshift(project, id, title, description, dueDate, priority) ==
    [project EXCEPT !.todos =
        <<Todo(id, title, description, dueDate, priority)>> \o @]

\* Project.createTodo: the project after the push; the todo it returns is the
\* last of its todos.
createTodo(project, id, title, description, dueDate, priority) ==
    [project EXCEPT !.todos =
        Append(@, Todo(id, title, description, dueDate, priority))]

\* A deleteTodoById that drops the last todo, whatever its id.
deleteTodoById_Pop(project, id) ==
    [project EXCEPT !.todos = SubSeq(@, 1, Len(@) - 1)]

\* Project.deleteTodoById
deleteTodoById(project, id) ==
    LET Keep(todo) == todo.id # id
    IN  [project EXCEPT !.todos = SelectSeq(@, Keep)]

\* Project.deleteAllTodos
deleteAllTodos(project) == [project EXCEPT !.todos = <<>>]

\* Project.getTodoById: the index of the first todo with that id, Null for null.
getTodoById(project, id) ==
    IF \E i \in 1..Len(project.todos) : project.todos[i].id = id
    THEN CHOOSE i \in 1..Len(project.todos) :
            /\ project.todos[i].id = id
            /\ \A j \in 1..(i - 1) : project.todos[j].id # id
    ELSE Null

(* ---------------------------- ProjectManager -------------------------- *)

\* A heap holding no object.
EmptyHeap == [r \in {} |-> Null]

\* The references that the manager's fields reach.
Reachable(refs, active, dflt) ==
    ({refs[i] : i \in 1..Len(refs)} \cup {active, dflt}) \ {Null}

\* A manager value with the heap restricted to the objects still reachable.
Manager(h, refs, active, dflt) ==
    [ projects       |-> refs,
      activeProject  |-> active,
      defaultProject |-> dflt,
      heap           |-> [r \in Reachable(refs, active, dflt) |-> h[r]] ]

\* The reference of a newly constructed object: the least one no live object has.
NewRef(h) ==
    CHOOSE r \in 1..(Cardinality(DOMAIN h) + 1) :
        /\ r \notin DOMAIN h
        /\ \A q \in 1..(r - 1) : q \in DOMAIN h

\* this.projects[0] ?? null
FirstOrNull(refs) == IF Len(refs) > 0 THEN refs[1] ELSE Null

\* ProjectManager.constructor
ProjectManager == Manager(EmptyHeap, <<>>, Null, Null)

\* ProjectManager.getProjects, dereferenced: the project objects in order.
getProjects(pm) == [i \in 1..Len(pm.projects) |-> pm.heap[pm.projects[i]]]

\* ProjectManager.getProjectById: the first project with that id, or null.
getProjectById(pm, id) ==
    IF \E i \in 1..Len(pm.projects) : pm.heap[pm.projects[i]].id = id
    THEN pm.projects[CHOOSE i \in 1..Len(pm.projects) :
                /\ pm.heap[pm.projects[i]].id = id
                /\ \A j \in 1..(i - 1) : pm.heap[pm.projects[j]].id # id]
    ELSE Null

\* ref?.id and ref?.getId(): the id of the referenced project, undefined
\* when the reference is null.
IdOf(pm, ref) == IF ref = Null THEN UndefinedId ELSE pm.heap[ref].id

\* ProjectManager.isDefaultProject: a falsy id returns undefined, read as FALSE.
isDefaultProject(pm, id) ==
    IF id \in {Null, UndefinedId} THEN FALSE ELSE IdOf(pm, pm.defaultProject) = id

\* Mutant of ActiveAfterCreate: the new project is always made active.
ActiveAfterCreate_Always(pm, project) == project

\* createProject: if (!this.activeProject) this.activeProject = project
ActiveAfterCreate(pm, project) ==
    IF pm.activeProject = Null THEN project ELSE pm.activeProject

\* Mutant of DefaultAfterCreate: the default role follows the active role.
DefaultAfterCreate_WithActive(pm, project) ==
    IF pm.activeProject = Null THEN project ELSE pm.defaultProject

\* Mutant of DefaultAfterCreate: the default role is never given on creation.
DefaultAfterCreate_Never(pm, project) == pm.defaultProject

\* createProject: if (!this.defaultProject) this.defaultProject = project
DefaultAfterCreate(pm, project) ==
    IF pm.defaultProject = Null THEN project ELSE pm.defaultProject

\* ProjectManager.createProject; it returns the reference NewRef(pm.heap).
createProject(pm, id, name) ==
    LET project == NewRef(pm.heap)
        h == [r \in DOMAIN pm.heap \cup {project} |->
                 IF r = project THEN Project(id, name) ELSE pm.heap[r]]
    IN  Manager(h, Append(pm.projects, project),
                ActiveAfterCreate(pm, project), DefaultAfterCreate(pm, project))

\* Mutant of ProjectsAfterDelete: the first project is dropped, whatever its id.
ProjectsAfterDelete_First(pm, id) ==
    IF Len(pm.projects) > 0 THEN Tail(pm.projects) ELSE pm.projects

\* deleteProjectById: this.projects.filter((p) => p.id !== id)
ProjectsAfterDelete(pm, id) ==
    LET Keep(ref) == pm.heap[ref].id # id
    IN  SelectSeq(pm.projects, Keep)

\* A delete that leaves no project active when the active one is deleted.
ActiveAfterDelete_Null(pm, id) ==
    IF IdOf(pm, pm.activeProject) = id THEN Null ELSE pm.activeProject

\* deleteProjectById: the reassignment of activeProject
ActiveAfterDelete(pm, id) ==
    IF IdOf(pm, pm.activeProject) = id
    THEN FirstOrNull(ProjectsAfterDelete(pm, id)) ELSE pm.activeProject

\* Mutant of DefaultAfterDelete: the default is reassigned only together
\* with the active project.
DefaultAfterDelete_WithActive(pm, id) ==
    IF IdOf(pm, pm.activeProject) = id
    THEN FirstOrNull(ProjectsAfterDelete(pm, id)) ELSE pm.defaultProject

\* deleteProjectById: the reassignment of defaultProject
DefaultAfterDelete(pm, id) ==
    IF IdOf(pm, pm.defaultProject) = id
    THEN FirstOrNull(ProjectsAfterDelete(pm, id)) ELSE pm.defaultProject

\* ProjectManager.deleteProjectById
deleteProjectById(pm, id) ==
    Manager(pm.heap, ProjectsAfterDelete(pm, id), ActiveAfterDelete(pm, id),
            DefaultAfterDelete(pm, id))

\* A deleteAllProjects that also forgets the default project.
deleteAllProjects_ClearsDefault(pm) == Manager(pm.heap, <<>>, Null, Null)

\* ProjectManager.deleteAllProjects: defaultProject is not assigned.
deleteAllProjects(pm) == Manager(pm.heap, <<>>, Null, pm.defaultProject)

\* Mutant of setActiveProject: an id that no project has keeps the selection.
setActiveProject_KeepOnMiss(pm, id) ==
    Manager(pm.heap, pm.projects,
            IF getProjectById(pm, id) # Null THEN getProjectById(pm, id)
            ELSE pm.activeProject,
            pm.defaultProject)

\* ProjectManager.setActiveProject
setActiveProject(pm, id) ==
    Manager(pm.heap, pm.projects, getProjectById(pm, id), pm.defaultProject)

\* Mutant of DefaultAfterToggle: a plain setter.
DefaultAfterToggle_Setter(pm, id) == getProjectById(pm, id)

\* setDefaultProject: the toggle
DefaultAfterToggle(pm, id) ==
    IF IdOf(pm, pm.defaultProject) = id THEN Null ELSE getProjectById(pm, id)

\* ProjectManager.setDefaultProject
setDefaultProject(pm, id) ==
    Manager(pm.heap, pm.projects, pm.activeProject, DefaultAfterToggle(pm, id))

(* ------------------------------- Storage ------------------------------ *)

\* saveToStorage: the object literal of one todo, as JSON.stringify writes it
\* and JSON.parse reads it back.
TodoToJSON(t) ==
    [ id          |-> t.id,
      title       |-> t.title,
      description |-> t.description,
      dueDate     |-> DateToJSON(t.dueDate),
      priority    |-> t.priority,
      completed   |-> t.completed,
      expanded    |-> t.expanded ]

\* saveToStorage: the object literal of one project
ProjectToJSON(p) ==
    [ id    |-> p.id,
      name  |-> p.name,
      todos |-> [i \in 1..Len(p.todos) |-> TodoToJSON(p.todos[i])] ]

\* saveToStorage: this.defaultProject?.getId() ?? null
SavedDefaultId(pm) ==
    IF pm.defaultProject = Null THEN Null ELSE IdOf(pm, pm.defaultProject)

\* saveToStorage: the object handed to Storage.save
SaveData(pm) ==
    [ defaultProjectId |-> SavedDefaultId(pm),
      projects |-> [i \in 1..Len(pm.projects) |->
                       ProjectToJSON(pm.heap[pm.projects[i]])] ]

\* Storage.save with a localStorage write that succeeds: the new stored value
StorageSave(data) == <<data>>

\* A save whose failed write leaves the key empty.
StorageSaveWhen_DropsOnFailure(stored, data, writeFails) ==
    IF writeFails THEN <<>> ELSE <<data>>

\* A save that adds to what is stored instead of replacing it.
StorageSaveWhen_Incremental(stored, data, writeFails) ==
    IF writeFails THEN stored ELSE stored \o <<data>>

\* Storage.save: JSON.stringify or setItem may throw (quota, denied access);
\* the catch logs and returns, and what was stored stays stored.
StorageSaveWhen(stored, data, writeFails) ==
    IF writeFails THEN stored ELSE StorageSave(data)

\* A stored value that no save of a manager wrote is kept as its text.
RawText(text) == [raw |-> text]

IsRaw(value) == "raw" \in DOMAIN value

\* Texts JSON.parse rejects with a SyntaxError.
Unparseable == {"{corrupt", "undefined"}

\* Texts JSON.parse turns into a falsy value other than null.
ParsesFalsy == {"0"}

\* Texts JSON.parse turns into a truthy value that is not a blob: an object
\* without projects, a number, a project record without todos.
NotABlob == {"{}", "42", "{\"projects\":[{}]}"}

RawTexts == {"", "null"} \cup Unparseable \cup ParsesFalsy \cup NotABlob

\* A load without the catch: text that JSON.parse rejects is handed back.
StorageLoad_Unchecked(stored) ==
    IF stored = <<>> THEN <<>>
    ELSE IF ~IsRaw(stored[1]) THEN stored
    ELSE IF stored[1].raw \in ParsesFalsy \cup NotABlob \cup Unparseable
         THEN stored
    ELSE <<>>

\* Storage.load: null (<<>>) when nothing is stored, when the stored text is
\* empty, when JSON.parse throws or yields null; else <<the parsed value>>.
StorageLoad(stored) ==
    IF stored = <<>> THEN <<>>
    ELSE IF ~IsRaw(stored[1]) THEN stored
    ELSE IF stored[1].raw \in ParsesFalsy \cup NotABlob THEN stored
    ELSE <<>>

\* Storage.load when localStorage.getItem may throw: the catch returns null.
StorageLoadWhen(stored, readFails) ==
    IF readFails THEN <<>> ELSE StorageLoad(stored)

\* Storage.clear: removeItem, whose failure is caught and leaves the value.
StorageClearWhen(stored, removeFails) ==
    IF removeFails THEN stored ELSE <<>>

\* Storage.exists: localStorage.getItem(STORAGE_KEY) !== null
StorageExists(stored) == stored # <<>>

\* A rebuild that restores the id but keeps the flags createTodo initialised.
RebuildTodo_FactoryFlags(project, t) ==
    LET made == createTodo(project, Null, t.title, t.description, t.dueDate,
                           t.priority)
    IN  [made EXCEPT !.todos[Len(made.todos)].id = t.id]

\* loadFromStorage: one persisted todo rebuilt through createTodo, then id,
\* completed and expanded overwritten.  The identifier createTodo generates is
\* overwritten before the todo can be observed.
RebuildTodo(project, t) ==
    LET made == createTodo(project, Null, t.title, t.description, t.dueDate,
                           t.priority)
        n == Len(made.todos)
    IN  [made EXCEPT !.todos[n].id = t.id,
                     !.todos[n].completed = t.completed,
                     !.todos[n].expanded = t.expanded]

\* p.todos.forEach(...) over the first n persisted todos
RECURSIVE RebuildTodos(_, _, _)
RebuildTodos(project, todos, n) ==
    IF n = 0 THEN project
    ELSE RebuildTodo(RebuildTodos(project, todos, n - 1), todos[n])

\* A rebuild that keeps the identifier the constructor generated.
RebuildProject_NoSetId(p) ==
    RebuildTodos(Project(Null, p.name), p.todos, Len(p.todos))

\* loadFromStorage: one persisted project rebuilt; the generated identifier is
\* replaced by the persisted one through setId.
RebuildProject(p) ==
    RebuildTodos(setId(Project(Null, p.name), p.id), p.todos, Len(p.todos))

\* loadFromStorage: data.projects.map(...).  The rebuilt objects are new and
\* the old ones become unreachable (both roles are reassigned below), so the
\* references start over at 1.
RebuiltProjects(data) ==
    [ projects       |-> [i \in 1..Len(data.projects) |-> i],
      activeProject  |-> Null,
      defaultProject |-> Null,
      heap           |-> [r \in 1..Len(data.projects) |->
                             RebuildProject(data.projects[r])] ]

\* loadFromStorage: getProjectById(data.defaultProjectId) || projects[0] || null
LoadedDefault(data) ==
    LET found == getProjectById(RebuiltProjects(data), data.defaultProjectId)
    IN  IF found # Null THEN found
        ELSE FirstOrNull(RebuiltProjects(data).projects)

\* A load that selects the first rebuilt project.
LoadedActive_First(data) == FirstOrNull(RebuiltProjects(data).projects)

\* loadFromStorage: this.activeProject = this.defaultProject
LoadedActive(data) == LoadedDefault(data)

\* loadFromStorage: if (!data) return
LoadReturnsEarly(loaded) ==
    \/ loaded = <<>>
    \/ IsRaw(loaded[1]) /\ loaded[1].raw \in ParsesFalsy

\* loadFromStorage: data.projects.map or p.todos.forEach is called on
\* undefined and raises a TypeError, before this.projects is assigned.
LoadThrows(loaded) ==
    /\ loaded # <<>>
    /\ IsRaw(loaded[1])
    /\ loaded[1].raw \in NotABlob

\* A load that pushes the rebuilt projects onto the projects there are.
loadFromStorage_Pushes(pm, loaded) ==
    IF LoadReturnsEarly(loaded) \/ LoadThrows(loaded) THEN pm
    ELSE LET rebuilt == RebuiltProjects(loaded[1])
             n       == Len(rebuilt.projects)
             base    == Cardinality(DOMAIN pm.heap) + 1
             h       == [r \in DOMAIN pm.heap \cup (base + 1)..(base + n) |->
                            IF r \in DOMAIN pm.heap THEN pm.heap[r]
                            ELSE rebuilt.heap[r - base]]
             Moved(ref) == IF ref = Null THEN Null ELSE ref + base
         IN  Manager(h, pm.projects \o [i \in 1..n |-> base + i],
                     Moved(LoadedActive(loaded[1])),
                     Moved(LoadedDefault(loaded[1])))

\* A load that constructs a new manager state even when there is no blob.
loadFromStorage_ResetOnNull(pm, loaded) ==
    IF LoadReturnsEarly(loaded) \/ LoadThrows(loaded) THEN ProjectManager
    ELSE Manager(RebuiltProjects(loaded[1]).heap, RebuiltProjects(loaded[1]).projects,
                 LoadedActive(loaded[1]), LoadedDefault(loaded[1]))

\* ProjectManager.loadFromStorage given what Storage.load returned; a call
\* that throws leaves the manager as it was.
loadFromStorage(pm, loaded) ==
    IF LoadReturnsEarly(loaded) \/ LoadThrows(loaded) THEN pm
    ELSE Manager(RebuiltProjects(loaded[1]).heap, RebuiltProjects(loaded[1]).projects,
                 LoadedActive(loaded[1]), LoadedDefault(loaded[1]))

\* What a save records in the history variable: the entity graph it wrote from.
Snapshot(pm) ==
    [ projects |-> getProjects(pm), defaultProjectId |-> SavedDefaultId(pm) ]

(* ------------------- actions: ProjectManager and Storage -------------- *)

\* new ProjectManager(): a manager with no projects and no roles.
NewManager ==
    /\ projectManager' = ProjectManager
    /\ UNCHANGED <<localStorage, nextId, savedFrom>>

\* projectManager.createProject(name)
CreateProject(name) ==
    /\ nextId <= MaxIds
    /\ projectManager' = createProject(projectManager, nextId, name)
    /\ nextId' = nextId + 1
    /\ UNCHANGED <<localStorage, savedFrom>>

\* projectManager.deleteProjectById(id)
DeleteProjectById(id) ==
    /\ projectManager' = deleteProjectById(projectManager, id)
    /\ UNCHANGED <<localStorage, nextId, savedFrom>>

\* projectManager.deleteAllProjects()
DeleteAllProjects ==
    /\ projectManager' = deleteAllProjects(projectManager)
    /\ UNCHANGED <<localStorage, nextId, savedFrom>>

\* projectManager.setActiveProject(id)
SetActiveProject(id) ==
    /\ projectManager' = setActiveProject(projectManager, id)
    /\ UNCHANGED <<localStorage, nextId, savedFrom>>

\* projectManager.setDefaultProject(id)
SetDefaultProject(id) ==
    /\ projectManager' = setDefaultProject(projectManager, id)
    /\ UNCHANGED <<localStorage, nextId, savedFrom>>

\* projectManager.saveToStorage()
SaveToStorage ==
    /\ localStorage' = StorageSaveWhen(localStorage, SaveData(projectManager),
                                       FALSE)
    /\ savedFrom' = Snapshot(projectManager)
    /\ UNCHANGED <<projectManager, nextId>>

\* projectManager.loadFromStorage()
LoadFromStorage ==
    /\ projectManager' = loadFromStorage(projectManager, StorageLoad(localStorage))
    /\ UNCHANGED <<localStorage, nextId, savedFrom>>

\* Storage.clear()
StorageClear ==
    /\ localStorage' = <<>>
    /\ savedFrom' = Snapshot(ProjectManager)
    /\ UNCHANGED <<projectManager, nextId>>

(* ------------------ actions: a held Project and its Todos ------------- *)

\* The manager with the object at ref replaced by its updated value.
WithProject(pm, ref, project) == [pm EXCEPT !.heap[ref] = project]

\* project.setName(name)
ProjectSetName(ref, name) ==
    /\ projectManager' = WithProject(projectManager, ref,
                                     setName(projectManager.heap[ref], name))
    /\ UNCHANGED <<localStorage, nextId, savedFrom>>

\* project.createTodo(title, description, dueDate, priority)
CreateTodo(ref, title, description, dueDate, priority) ==
    /\ nextId <= MaxIds
    /\ Len(projectManager.heap[ref].todos) < MaxTodos
    /\ projectManager' = WithProject(projectManager, ref,
            createTodo(projectManager.heap[ref], nextId, title, description,
                       dueDate, priority))
    /\ nextId' = nextId + 1
    /\ UNCHANGED <<localStorage, savedFrom>>

\* project.deleteTodoById(id)
DeleteTodoById(ref, id) ==
    /\ projectManager' = WithProject(projectManager, ref,
                                     deleteTodoById(projectManager.heap[ref], id))
    /\ UNCHANGED <<localStorage, nextId, savedFrom>>

\* project.deleteAllTodos()
DeleteAllTodos(ref) ==
    /\ projectManager' = WithProject(projectManager, ref,
                                     deleteAllTodos(projectManager.heap[ref]))
    /\ UNCHANGED <<localStorage, nextId, savedFrom>>

\* todo.toggleCompleted() on the i-th todo of the project
TodoToggleCompleted(ref, i) ==
    /\ projectManager' = [projectManager EXCEPT
                             !.heap[ref].todos[i] = toggleCompleted(@)]
    /\ UNCHANGED <<localStorage, nextId, savedFrom>>

\* todo.toggleExpanded() on the i-th todo of the project
TodoToggleExpanded(ref, i) ==
    /\ projectManager' = [projectManager EXCEPT
                             !.heap[ref].todos[i] = toggleExpanded(@)]
    /\ UNCHANGED <<localStorage, nextId, savedFrom>>

\* todo.updateData(patch) on the i-th todo of the project
TodoUpdateData(ref, i, patch) ==
    /\ projectManager' = [projectManager EXCEPT
                             !.heap[ref].todos[i] = updateData(@, patch)]
    /\ UNCHANGED <<localStorage, nextId, savedFrom>>

\* todo.title = val on the i-th todo of the project
TodoSetTitle(ref, i, val) ==
    /\ projectManager' = [projectManager EXCEPT
                             !.heap[ref].todos[i] = setTitle(@, val)]
    /\ UNCHANGED <<localStorage, nextId, savedFrom>>

\* todo.info = patch on the i-th todo of the project
TodoSetInfo(ref, i, patch) ==
    /\ projectManager' = [projectManager EXCEPT
                             !.heap[ref].todos[i] = setInfo(@, patch)]
    /\ UNCHANGED <<localStorage, nextId, savedFrom>>

(* ------------------------------- inputs ------------------------------- *)

\* Arguments given as a project name.
NameInputs == {Undefined, "  ", "Work"}

\* Arguments given as an id: undefined, null, and every id the generator
\* returns within the bound (held by some project or todo, or by none).
IdInputs == {UndefinedId, Null} \cup 1..MaxIds

\* Arguments given to createTodo: <<title, description, dueDate, priority>>.
TodoInputs ==
    { <<Undefined, Undefined, Undefined, Undefined>>,
      <<"Finish report", "Work task", "2025-11-01", URGENT>> }

\* Patches given to updateData.
PatchInputs ==
    { [title |-> Undefined, description |-> "", dueDate |-> JsNull,
       priority |-> Undefined],
      [title |-> "  ", description |-> Undefined, dueDate |-> Undefined,
       priority |-> LOW] }

\* Values assigned to a todo's title.
TitleInputs == {Undefined, JsNull, "", "  ", "Finish report"}

\* Objects assigned to a todo's info.
InfoInputs ==
    { [title |-> "  "],
      [title |-> JsNull, description |-> "Work task", dueDate |-> "",
       completed |-> TRUE],
      [title |-> "Finish report", priority |-> LOW, dueDate |-> "2025-11-01"] }

\* Arguments given to deleteTodoById on a held project: the id of each of
\* its todos, and undefined, which is no todo's id.
TodoIdInputs(ref) ==
    {UndefinedId}
        \cup { projectManager.heap[ref].todos[i].id :
                  i \in 1..Len(projectManager.heap[ref].todos) }

\* The projects a caller can hold: those the manager's getters return.
HeldProjects == DOMAIN projectManager.heap

(* ---------------------------- specifications -------------------------- *)

\* The state after the modules are evaluated: an empty manager, nothing stored.
Init ==
    /\ projectManager = ProjectManager
    /\ localStorage = <<>>
    /\ nextId = 1
    /\ savedFrom = Snapshot(ProjectManager)
    /\ phase = "build"

\* Any call of a public operation of ProjectManager, on a manager whose
\* projects may hold todos.
Next ==
    \/ NewManager /\ phase' = "build"
    \/ \E name \in NameInputs : CreateProject(name) /\ phase' = "build"
    \/ \E id \in IdInputs : DeleteProjectById(id) /\ phase' = "build"
    \/ \E id \in IdInputs : SetActiveProject(id) /\ phase' = "build"
    \/ \E id \in IdInputs : SetDefaultProject(id) /\ phase' = "build"
    \/ DeleteAllProjects /\ phase' = "build"
    \/ SaveToStorage /\ phase' = "build"
    \/ LoadFromStorage /\ phase' = "loaded"
    \/ \E ref \in HeldProjects : \E in \in TodoInputs :
            CreateTodo(ref, in[1], in[2], in[3], in[4]) /\ phase' = "build"
    \/ \E ref \in HeldProjects : \E id \in TodoIdInputs(ref) :
            DeleteTodoById(ref, id) /\ phase' = "build"

Spec == Init /\ [][Next]_vars

\* Positions of the todos of a held project.
TodoPositions(ref) == 1..Len(projectManager.heap[ref].todos)

\* One step of building a manager state through the operations of
\* ProjectManager, Project and Todo.
RTBuild(op) == phase = "build" /\ op /\ UNCHANGED phase

\* saveToStorage() on the manager that was built
RTSave == phase = "build" /\ SaveToStorage /\ phase' = "saved"

\* a fresh, empty manager is constructed
RTFresh == phase = "saved" /\ NewManager /\ phase' = "fresh"

\* loadFromStorage() on the fresh manager
RTLoad == phase = "fresh" /\ LoadFromStorage /\ phase' = "loaded"

\* the stored blob is dropped and the loaded manager is built upon
RTContinue == phase = "loaded" /\ StorageClear /\ phase' = "build"

\* Build a manager state, save it, load it into a fresh manager, go on.
RTNext ==
    \/ \E name \in NameInputs : RTBuild(CreateProject(name))
    \/ \E id \in IdInputs : RTBuild(DeleteProjectById(id))
    \/ \E id \in IdInputs : RTBuild(SetActiveProject(id))
    \/ \E id \in IdInputs : RTBuild(SetDefaultProject(id))
    \/ RTBuild(DeleteAllProjects)
    \/ \E ref \in HeldProjects : \E name \in NameInputs :
            RTBuild(ProjectSetName(ref, name))
    \/ \E ref \in HeldProjects : \E in \in TodoInputs :
            RTBuild(CreateTodo(ref, in[1], in[2], in[3], in[4]))
    \/ \E ref \in HeldProjects : \E id \in IdInputs :
            RTBuild(DeleteTodoById(ref, id))
    \/ \E ref \in HeldProjects : RTBuild(DeleteAllTodos(ref))
    \/ \E ref \in HeldProjects : \E i \in TodoPositions(ref) :
            RTBuild(TodoToggleCompleted(ref, i))
    \/ \E ref \in HeldProjects : \E i \in TodoPositions(ref) :
            RTBuild(TodoToggleExpanded(ref, i))
    \/ \E ref \in HeldProjects : \E i \in TodoPositions(ref) :
            \E patch \in PatchInputs : RTBuild(TodoUpdateData(ref, i, patch))
    \/ RTSave
    \/ RTFresh
    \/ RTLoad
    \/ RTContinue

RoundTripSpec == Init /\ [][RTNext]_vars

(* ------------- specification: Project and Todo operations ------------- *)

\* One call on the manager, on a project it holds or on one of its todos,
\* storage left aside.
Call(op) == op /\ phase' = "build"

\* A call of deleteTodoById; phase tells that it was the last call and that
\* it removed a todo.
Deleting(op) ==
    /\ op
    /\ phase' = IF projectManager' # projectManager
                THEN "deleteTodoById" ELSE "build"

\* Projects are created and renamed, todos are created, written through
\* every write path of Todo, toggled and deleted.
EntityNext ==
    \/ \E name \in NameInputs : Call(CreateProject(name))
    \/ \E ref \in HeldProjects : \E name \in NameInputs :
            Call(ProjectSetName(ref, name))
    \/ \E ref \in HeldProjects : \E in \in TodoInputs :
            Call(CreateTodo(ref, in[1], in[2], in[3], in[4]))
    \/ \E ref \in HeldProjects : \E id \in IdInputs :
            Deleting(DeleteTodoById(ref, id))
    \/ \E ref \in HeldProjects : Call(DeleteAllTodos(ref))
    \/ \E ref \in HeldProjects : \E i \in TodoPositions(ref) :
            Call(TodoToggleCompleted(ref, i))
    \/ \E ref \in HeldProjects : \E i \in TodoPositions(ref) :
            Call(TodoToggleExpanded(ref, i))
    \/ \E ref \in HeldProjects : \E i \in TodoPositions(ref) :
            \E val \in TitleInputs : Call(TodoSetTitle(ref, i, val))
    \/ \E ref \in HeldProjects : \E i \in TodoPositions(ref) :
            \E patch \in PatchInputs : Call(TodoUpdateData(ref, i, patch))
    \/ \E ref \in HeldProjects : \E i \in TodoPositions(ref) :
            \E patch \in InfoInputs : Call(TodoSetInfo(ref, i, patch))

EntitySpec == Init /\ [][EntityNext]_vars

(* --------------- actions: storage that fails or is foreign ------------ *)

\* projectManager.saveToStorage() when the write may fail: Storage.save
\* catches the exception and the call returns.
SaveToStorageWhen(writeFails) ==
    /\ localStorage' = StorageSaveWhen(localStorage, SaveData(projectManager),
                                       writeFails)
    /\ savedFrom' = IF writeFails THEN savedFrom ELSE Snapshot(projectManager)
    /\ phase' = "returned"
    /\ UNCHANGED <<projectManager, nextId>>

\* projectManager.loadFromStorage() when the read may fail; phase tells
\* whether the call returned or threw.
LoadFromStorageWhen(readFails) ==
    /\ projectManager' = loadFromStorage(projectManager,
                                         StorageLoadWhen(localStorage, readFails))
    /\ phase' = IF LoadThrows(StorageLoadWhen(localStorage, readFails))
                THEN "threw" ELSE "returned"
    /\ UNCHANGED <<localStorage, nextId, savedFrom>>

\* Storage.clear() when removeItem may fail
StorageClearCall(removeFails) ==
    /\ localStorage' = StorageClearWhen(localStorage, removeFails)
    /\ savedFrom' = IF removeFails THEN savedFrom ELSE Snapshot(ProjectManager)
    /\ phase' = "returned"
    /\ UNCHANGED <<projectManager, nextId>>

\* localStorage.setItem(STORAGE_KEY, ...) by anything but saveToStorage: the
\* key is shared with every script of the origin and with the user.
ExternalSetItem(value) ==
    /\ localStorage' = <<value>>
    /\ savedFrom' = Snapshot(ProjectManager)
    /\ phase' = "returned"
    /\ UNCHANGED <<projectManager, nextId>>

\* Identifiers found in stored blobs that this page did not generate.
ForeignIds == {MaxIds + 1, MaxIds + 2}

\* Blobs that conform to the persistence schema and were not written by
\* saveToStorage of this page.
ForeignBlobs ==
    { [ defaultProjectId |-> Null,
        projects |-> << [ id |-> MaxIds + 1, name |-> "",
                          todos |-> << [ id |-> MaxIds + 2, title |-> "  ",
                                         description |-> "",
                                         dueDate |-> IsoText("2025-11-01"),
                                         priority |-> LOW,
                                         completed |-> TRUE,
                                         expanded |-> TRUE ] >> ] >> ],
      [ defaultProjectId |-> MaxIds + 2,
        projects |-> << [ id |-> MaxIds + 1, name |-> " Home ", todos |-> <<>> ],
                        [ id |-> MaxIds + 2, name |-> "  ", todos |-> <<>> ] >> ] }

\* What the key can be set to from outside.
ExternalValues == {RawText(text) : text \in RawTexts} \cup ForeignBlobs

\* An operation of the model that returns normally.
Returned(op) == op /\ phase' = "returned"

\* An operation on a project, made while nothing is stored: the scenarios
\* fill the projects first and then exercise the storage.  Projects are
\* created at any time.
Building(op) == localStorage = <<>> /\ op /\ phase' = "returned"

\* A manager is filled, then saved, loaded and cleared over a storage that
\* may fail and whose key others may write.
StorageNext ==
    \/ \E name \in NameInputs : Returned(CreateProject(name))
    \/ \E ref \in HeldProjects : \E name \in NameInputs :
            Building(ProjectSetName(ref, name))
    \/ \E ref \in HeldProjects : \E in \in TodoInputs :
            Building(CreateTodo(ref, in[1], in[2], in[3], in[4]))
    \/ \E writeFails \in BOOLEAN : SaveToStorageWhen(writeFails)
    \/ \E readFails \in BOOLEAN : LoadFromStorageWhen(readFails)
    \/ \E removeFails \in BOOLEAN : StorageClearCall(removeFails)
    \/ \E value \in ExternalValues : ExternalSetItem(value)

StorageInit ==
    /\ projectManager = ProjectManager
    /\ localStorage = <<>>
    /\ nextId = 1
    /\ savedFrom = Snapshot(ProjectManager)
    /\ phase = "returned"

StorageSpec == StorageInit /\ [][StorageNext]_vars

(* ------------------ actions: the controller's handlers ---------------- *)

\* renderAll: the project id the todo list view stores and hands to its
\* callbacks (UndefinedId while no project is shown, and then no button of
\* the view exists).
CurrentProjectId == IdOf(projectManager, projectManager.activeProject)

\* renderAll: the project ids on the buttons of the sidebar.
SidebarProjectIds ==
    {projectManager.heap[projectManager.projects[i]].id :
        i \in 1..Len(projectManager.projects)}

\* renderAll: the todo ids on the items of the todo list.
RenderedTodoIds ==
    IF projectManager.activeProject = Null THEN {}
    ELSE LET todos == projectManager.heap[projectManager.activeProject].todos
         IN  {todos[i].id : i \in 1..Len(todos)}

\* The closing statements of a handler that changes the model: renderAll()
\* (which reads the model only) and projectManager.saveToStorage().
RenderAndSave(qm, handler) ==
    /\ projectManager' = qm
    /\ localStorage' = StorageSave(SaveData(qm))
    /\ savedFrom' = Snapshot(qm)
    /\ phase' = handler

\* sidebarView.setOnProjectSelected
OnProjectSelected(id) ==
    /\ projectManager' = setActiveProject(projectManager, id)
    /\ phase' = "onProjectSelected"
    /\ UNCHANGED <<localStorage, nextId, savedFrom>>

\* todoListView.setOnStarProjectClicked
OnStarProjectClicked(projectId) ==
    /\ RenderAndSave(setDefaultProject(projectManager, projectId),
                     "onStarProjectClicked")
    /\ UNCHANGED nextId

\* todoListView.setOnTodoToggled
OnTodoToggled(projectId, todoId) ==
    LET ref == getProjectById(projectManager, projectId)
        i   == getTodoById(projectManager.heap[ref], todoId)
    IN  /\ RenderAndSave([projectManager EXCEPT
                             !.heap[ref].todos[i] = toggleCompleted(@)],
                         "onTodoToggled")
        /\ UNCHANGED nextId

\* todoListView.setOnTodoExpandToggled: toggles only a todo that has a
\* description; saves either way.
OnTodoExpandToggled(projectId, todoId) ==
    LET ref == getProjectById(projectManager, projectId)
        i   == getTodoById(projectManager.heap[ref], todoId)
    IN  /\ RenderAndSave(
              IF ~Blank(projectManager.heap[ref].todos[i].description)
              THEN [projectManager EXCEPT !.heap[ref].todos[i] = toggleExpanded(@)]
              ELSE projectManager,
              "onTodoExpandToggled")
        /\ UNCHANGED nextId

\* newProjectDialog.setOnSubmit
NewProjectSubmit(name) ==
    /\ nextId <= MaxIds
    /\ RenderAndSave(createProject(projectManager, nextId, name),
                     "newProjectSubmit")
    /\ nextId' = nextId + 1

\* editProjectDialog.setOnSubmit
EditProjectSubmit(id, name) ==
    LET ref == getProjectById(projectManager, id)
    IN  /\ RenderAndSave(WithProject(projectManager, ref,
                                     setName(projectManager.heap[ref], name)),
                         "editProjectSubmit")
        /\ UNCHANGED nextId

\* A delete handler that ends after renderAll().
DeleteProjectSubmit_NoSave(id) ==
    /\ projectManager' = deleteProjectById(projectManager, id)
    /\ phase' = "deleteProjectSubmit"
    /\ UNCHANGED <<localStorage, nextId, savedFrom>>

\* deleteProjectDialog.setOnSubmit
DeleteProjectSubmit(id) ==
    /\ RenderAndSave(deleteProjectById(projectManager, id), "deleteProjectSubmit")
    /\ UNCHANGED nextId

\* newTodoDialog.setOnSubmit
NewTodoSubmit(projectId, title, description, dueDate, priority) ==
    LET ref == getProjectById(projectManager, projectId)
    IN  /\ nextId <= MaxIds
        /\ Len(projectManager.heap[ref].todos) < MaxTodos
        /\ RenderAndSave(WithProject(projectManager, ref,
                createTodo(projectManager.heap[ref], nextId, title, description,
                           dueDate, priority)),
                "newTodoSubmit")
        /\ nextId' = nextId + 1

\* editTodoDialog.setOnSubmit: the date field is turned into a Date or null
\* before updateData receives it.
EditTodoSubmit(projectId, todoId, data) ==
    LET ref == getProjectById(projectManager, projectId)
        i   == getTodoById(projectManager.heap[ref], todoId)
    IN  /\ RenderAndSave([projectManager EXCEPT !.heap[ref].todos[i] =
                updateData(@, [data EXCEPT !.dueDate = ToDueDate(data.dueDate)])],
                "editTodoSubmit")
        /\ UNCHANGED nextId

\* deleteTodoDialog.setOnSubmit
DeleteTodoSubmit(projectId, todoId) ==
    LET ref == getProjectById(projectManager, projectId)
    IN  /\ RenderAndSave(WithProject(projectManager, ref,
                deleteTodoById(projectManager.heap[ref], todoId)),
                "deleteTodoSubmit")
        /\ UNCHANGED nextId

\* initApp on a reloaded page: the module's singleton is constructed anew
\* and loads what localStorage holds.
InitApp ==
    /\ projectManager' = loadFromStorage(ProjectManager, StorageLoad(localStorage))
    /\ phase' = "initApp"
    /\ UNCHANGED <<localStorage, nextId, savedFrom>>

\* Values of the dialogs' form fields: <<title, description, dueDate, priority>>.
TodoForms ==
    { <<"", "", "", IMPORTANT>>,
      <<"Finish report", "Work task", "2025-11-01", URGENT>> }

\* Values of the edit dialog's form fields.
EditForms ==
    { [title |-> "", description |-> "", dueDate |-> "", priority |-> LOW],
      [title |-> "Finish report", description |-> "Work task",
       dueDate |-> "2025-11-01", priority |-> URGENT] }

\* The page after its first initApp: nothing stored, an empty manager.
CtlInit ==
    /\ projectManager = ProjectManager
    /\ localStorage = <<>>
    /\ nextId = 1
    /\ savedFrom = Snapshot(ProjectManager)
    /\ phase = "initApp"

\* Any user event the rendered page offers, or a reload of the page.
CtlNext ==
    \/ \E id \in SidebarProjectIds : OnProjectSelected(id)
    \/ projectManager.activeProject # Null /\ OnStarProjectClicked(CurrentProjectId)
    \/ \E todoId \in RenderedTodoIds : OnTodoToggled(CurrentProjectId, todoId)
    \/ \E todoId \in RenderedTodoIds : OnTodoExpandToggled(CurrentProjectId, todoId)
    \/ \E name \in NameInputs : NewProjectSubmit(name)
    \/ \E name \in NameInputs :
          projectManager.activeProject # Null
          /\ EditProjectSubmit(CurrentProjectId, name)
    \/ projectManager.activeProject # Null /\ DeleteProjectSubmit(CurrentProjectId)
    \/ \E form \in TodoForms :
          projectManager.activeProject # Null
          /\ NewTodoSubmit(CurrentProjectId, form[1], form[2], form[3], form[4])
    \/ \E todoId \in RenderedTodoIds : \E data \in EditForms :
          EditTodoSubmit(CurrentProjectId, todoId, data)
    \/ \E todoId \in RenderedTodoIds : DeleteTodoSubmit(CurrentProjectId, todoId)
    \/ InitApp

CtlSpec == CtlInit /\ [][CtlNext]_vars

(* ------------------- vocabulary of the properties --------------------- *)

\* The references contained in the manager's projects array.
Contained(pm) == {pm.projects[i] : i \in 1..Len(pm.projects)}

\* The contained project whose id is id, or Null when there is none.
ProjectWithId(pm, id) ==
    IF \E r \in Contained(pm) : pm.heap[r].id = id
    THEN CHOOSE r \in Contained(pm) : pm.heap[r].id = id
    ELSE Null

\* The first contained project other than ref, or Null when there is none.
FirstOther(pm, ref) ==
    IF \E i \in 1..Len(pm.projects) : pm.projects[i] # ref
    THEN pm.projects[CHOOSE i \in 1..Len(pm.projects) :
                        /\ pm.projects[i] # ref
                        /\ \A j \in 1..(i - 1) : pm.projects[j] = ref]
    ELSE Null

\* The position of a contained reference in projects.
Position(pm, ref) == CHOOSE i \in 1..Len(pm.projects) : pm.projects[i] = ref

\* Every contained project of pm is the same object, with the same contents,
\* in qm.
SameObjects(pm, qm) ==
    \A r \in Contained(pm) : r \in DOMAIN qm.heap /\ qm.heap[r] = pm.heap[r]

\* projects of qm is projects of pm with one new reference appended.
AppendedOne(pm, qm) ==
    /\ Len(qm.projects) = Len(pm.projects) + 1
    /\ SubSeq(qm.projects, 1, Len(pm.projects)) = pm.projects
    /\ qm.projects[Len(qm.projects)] \notin DOMAIN pm.heap

\* The reference createProject returned in a step: the last of projects'.
Created(qm) == qm.projects[Len(qm.projects)]

(* ------------------------------ C1 ------------------------------------ *)

\* C1: in every reachable state activeProject is null or a project contained
\* in projects, and defaultProject is null or a project contained in projects.
C1_RolesAreContained ==
    /\ projectManager.activeProject \in Contained(projectManager) \cup {Null}
    /\ projectManager.defaultProject \in Contained(projectManager) \cup {Null}

(* ------------------------------ C2 ------------------------------------ *)

\* The project the fallback chain of a load selects for a saved graph: the
\* one whose id is the persisted defaultProjectId, else the first, else Null.
FallbackChoice(pm, saved) ==
    IF ProjectWithId(pm, saved.defaultProjectId) # Null
    THEN ProjectWithId(pm, saved.defaultProjectId)
    ELSE FirstOrNull(pm.projects)

ChangingHandlers ==
    {"onStarProjectClicked", "onTodoToggled", "onTodoExpandToggled",
     "newProjectSubmit", "editProjectSubmit", "deleteProjectSubmit",
     "newTodoSubmit", "editTodoSubmit", "deleteTodoSubmit"}

\* C3: in the application driven by the controller's handlers, after every
\* handler that changes a project, a todo or the default project has
\* returned, localStorage holds the serialization of the current manager
\* state; and at any point between user events a page reload (initApp's
\* loadFromStorage on an empty manager) restores exactly the projects and
\* todos that exist at that point.
C3_StorageFollowsHandlers ==
    /\ phase \in ChangingHandlers
         => localStorage = StorageSave(SaveData(projectManager))
    /\ getProjects(loadFromStorage(ProjectManager, StorageLoad(localStorage)))
         = getProjects(projectManager)

\* C3 witness: a page reloaded after its handlers created two projects and a
\* todo and completed the todo shows the two projects and the completed todo.
C3_Witness ==
    /\ phase = "initApp"
    /\ localStorage # <<>>
    /\ Len(projectManager.projects) = 2
    /\ \E r \in Contained(projectManager) :
         /\ Len(projectManager.heap[r].todos) = 1
         /\ projectManager.heap[r].todos[1].completed

(* ------------------------------ C4 ------------------------------------ *)

\* C4: on a freshly constructed manager the first createProject call appends
\* the new project, returns it, and makes it both activeProject and
\* defaultProject.
C4_FirstProjectTakesBothRoles ==
    projectManager = ProjectManager
    => \A name \in NameInputs :
        LET pm == projectManager
            qm == createProject(pm, nextId, name)
        IN  /\ AppendedOne(pm, qm)
            /\ Len(qm.projects) = 1
            /\ Created(qm) = NewRef(pm.heap)
            /\ qm.activeProject = Created(qm)
            /\ qm.defaultProject = Created(qm)
            /\ qm.heap[Created(qm)].id = nextId
            /\ qm.heap[Created(qm)].todos = <<>>

\* C4 witness: after the first identifier was used, the only project of the
\* manager holds both roles.
C4_Witness ==
    /\ nextId = 2
    /\ Len(projectManager.projects) = 1
    /\ projectManager.activeProject = projectManager.projects[1]
    /\ projectManager.defaultProject = projectManager.projects[1]

(* ------------------------------ C5 ------------------------------------ *)

C7_DeleteRemovesOnlyThatProject ==
    \A p \in Contained(projectManager) :
        LET pm == projectManager
            id == pm.heap[p].id
            qm == deleteProjectById(pm, id)
        IN  /\ getProjectById(qm, id) = Null
            /\ \A r \in Contained(qm) : qm.heap[r].id # id
            /\ Contained(qm) = Contained(pm) \ {p}
            /\ Len(qm.projects) = Len(pm.projects) - 1
            /\ \A r \in Contained(qm) : qm.heap[r] = pm.heap[r]
            /\ \A r1, r2 \in Contained(qm) :
                 Position(qm, r1) < Position(qm, r2)
                     <=> Position(pm, r1) < Position(pm, r2)

\* C7 witness: two projects and a todo were created, one project was deleted,
\* and the project that remains still holds its todo.
C7_Witness ==
    /\ nextId = 4
    /\ Len(projectManager.projects) = 1
    /\ Len(projectManager.heap[projectManager.projects[1]].todos) = 1
    /\ projectManager.heap[projectManager.projects[1]].id = 2

(* ------------------------------ C8 ------------------------------------ *)

\* C8: deleteProjectById of a contained project reassigns the roles
\* independently: if the deleted project was activeProject, activeProject
\* becomes the first remaining project or null when none remain, otherwise it
\* is unchanged; likewise, and independently, for defaultProject.
C8_DeleteReassignsRolesIndependently ==
    \A p \in Contained(projectManager) :
        LET pm == projectManager
            qm == deleteProjectById(pm, pm.heap[p].id)
        IN  /\ qm.activeProject =
                IF pm.activeProject = p THEN FirstOther(pm, p)
                ELSE pm.activeProject
            /\ qm.defaultProject =
                IF pm.defaultProject = p THEN FirstOther(pm, p)
                ELSE pm.defaultProject

\* C8 witness: of the projects A (id 1, active and default) and B (id 2) only
\* B remains, and B holds both roles.
C8_Witness ==
    /\ nextId = 3
    /\ Len(projectManager.projects) = 1
    /\ projectManager.heap[projectManager.projects[1]].id = 2
    /\ projectManager.activeProject = projectManager.projects[1]
    /\ projectManager.defaultProject = projectManager.projects[1]

(* ------------------------------ C9 ------------------------------------ *)

\* C9: setDefaultProject(id) is a toggle: if defaultProject's id equals id,
\* defaultProject becomes null; otherwise it becomes the project with that id,
\* or null if no project has that id.  For the id of a contained project a
\* second call with the same id undoes or redoes the first, so consecutive
\* calls alternate between that project and null; no call changes projects
\* or activeProject.
C9_SetDefaultProjectToggles ==
    \A id \in IdInputs :
        LET pm == projectManager
            qm == setDefaultProject(pm, id)
            p  == ProjectWithId(pm, id)
        IN  /\ qm.defaultProject =
                IF pm.defaultProject # Null /\ pm.heap[pm.defaultProject].id = id
                THEN Null ELSE p
            /\ qm.projects = pm.projects
            /\ qm.activeProject = pm.activeProject
            /\ SameObjects(pm, qm)
            /\ p # Null =>
                /\ qm.defaultProject = IF pm.defaultProject = p THEN Null ELSE p
                /\ setDefaultProject(qm, id).defaultProject =
                     IF qm.defaultProject = p THEN Null ELSE p

\* C9 witness: a manager with a project that is active while the default was
\* toggled off.
C9_Witness ==
    /\ nextId = 2
    /\ Len(projectManager.projects) = 1
    /\ projectManager.activeProject = projectManager.projects[1]
    /\ projectManager.defaultProject = Null

(* ------------------------------ C10 ----------------------------------- *)

\* C10: setActiveProject(id) sets activeProject to the contained project whose
\* id equals id, or to null when no project has that id; it is defined for
\* every id (it never throws) and never changes projects or defaultProject.
C10_SetActiveProjectLooksUp ==
    \A id \in IdInputs :
        LET pm == projectManager
            qm == setActiveProject(pm, id)
        IN  /\ ENABLED SetActiveProject(id)
            /\ qm.activeProject = ProjectWithId(pm, id)
            /\ qm.projects = pm.projects
            /\ qm.defaultProject = pm.defaultProject
            /\ SameObjects(pm, qm)

\* C10 witness: a manager whose project is default while activeProject was
\* set to null by an id that no project has.
C10_Witness ==
    /\ nextId = 2
    /\ Len(projectManager.projects) = 1
    /\ projectManager.activeProject = Null
    /\ projectManager.defaultProject = projectManager.projects[1]

(* ------------------------------ C11 ----------------------------------- *)

\* C11: when Storage.load returns null, because nothing was ever saved or
\* because the storage was cleared, loadFromStorage raises no exception and
\* leaves projects, activeProject and defaultProject (and every project)
\* exactly as they were, whatever the manager state.
C11_LoadOfNothingChangesNothing ==
    \A stored \in {<<>>, StorageClearWhen(localStorage, FALSE)} :
        /\ StorageLoad(stored) = <<>>
        /\ ~LoadThrows(StorageLoad(stored))
        /\ loadFromStorage(projectManager, StorageLoad(stored)) = projectManager

\* C11 witness: nothing is stored and the manager holds two projects, the
\* second of them active, the first the default.
C11_Witness ==
    /\ localStorage = <<>>
    /\ Len(projectManager.projects) = 2
    /\ projectManager.activeProject = projectManager.projects[2]
    /\ projectManager.defaultProject = projectManager.projects[1]

(* ------------------------------ C12 ----------------------------------- *)

\* C12: after loadFromStorage with a non-null blob, defaultProject is the
\* rebuilt project whose id equals blob.defaultProjectId if there is one,
\* otherwise the first rebuilt project, otherwise null; activeProject is
\* identical to defaultProject, whichever project was active before.
C12_LoadResolvesDefaultThenActive ==
    localStorage # <<>> =>
        LET blob == StorageLoad(localStorage)[1]
            qm   == loadFromStorage(projectManager, StorageLoad(localStorage))
        IN  /\ Len(qm.projects) = Len(blob.projects)
            /\ \A i \in 1..Len(qm.projects) :
                 qm.heap[qm.projects[i]].id = blob.projects[i].id
            /\ qm.defaultProject = FallbackChoice(qm, blob)
            /\ qm.activeProject = qm.defaultProject

\* C12 witness: the manager is the one a load of the stored blob yields, the
\* blob names the second of two projects as the default, and both roles are
\* that project.
C12_Witness ==
    /\ localStorage # <<>>
    /\ projectManager = loadFromStorage(projectManager, StorageLoad(localStorage))
    /\ Len(projectManager.projects) = 2
    /\ localStorage[1].defaultProjectId =
           projectManager.heap[projectManager.projects[2]].id
    /\ projectManager.activeProject = projectManager.projects[2]
    /\ projectManager.defaultProject = projectManager.projects[2]

(* ------------------------------ C13 ----------------------------------- *)

\* The stored value is a blob of the persistence schema.
HoldsBlob == localStorage # <<>> /\ ~IsRaw(localStorage[1])

\* The manager loadFromStorage yields from what is stored.
Reloaded == loadFromStorage(projectManager, StorageLoad(localStorage))

\* The i-th project of a manager.
ProjectAt(pm, i) == pm.heap[pm.projects[i]]

\* C13 as stated: for every blob of the persistence schema, written by
\* saveToStorage or not, loadFromStorage rebuilds each project with the
\* persisted id and each todo with all seven persisted fields equal to the
\* persisted values (the dueDate being the Date of the persisted text); no
\* factory default or coercion overrides a persisted value.
C13_EveryFieldIsRestored ==
    HoldsBlob =>
        LET blob == localStorage[1]
        IN  /\ Len(Reloaded.projects) = Len(blob.projects)
            /\ \A i \in 1..Len(blob.projects) :
                 /\ ProjectAt(Reloaded, i).id = blob.projects[i].id
                 /\ ProjectAt(Reloaded, i).name = blob.projects[i].name
                 /\ ProjectToJSON(ProjectAt(Reloaded, i)).todos
                        = blob.projects[i].todos

\* C13 amended: for every blob of the persistence schema, loadFromStorage
\* rebuilds each project with the persisted id and each todo with the
\* persisted id, description, priority, completed and expanded, and with the
\* Date of the persisted dueDate text (null for null); a persisted title or
\* name is kept when it contains a non-whitespace character and replaced by
\* "Untitled Todo" or "Untitled Project" when it is empty or whitespace-only.
C13_FieldsRestoredTitleAndNameCoerced ==
    HoldsBlob =>
        LET blob == localStorage[1]
        IN  /\ Len(Reloaded.projects) = Len(blob.projects)
            /\ \A i \in 1..Len(blob.projects) :
                 LET p == blob.projects[i]
                     q == ProjectAt(Reloaded, i)
                 IN  /\ q.id = p.id
                     /\ q.name = IF p.name \in WhitespaceOnly
                                 THEN "Untitled Project" ELSE p.name
                     /\ Len(q.todos) = Len(p.todos)
                     /\ \A j \in 1..Len(p.todos) :
                          /\ q.todos[j].title =
                               IF p.todos[j].title \in WhitespaceOnly
                               THEN "Untitled Todo" ELSE p.todos[j].title
                          /\ [TodoToJSON(q.todos[j]) EXCEPT !.title = "same"]
                               = [p.todos[j] EXCEPT !.title = "same"]

\* C13 witness: the manager was loaded from a blob with an empty project
\* name and a whitespace title; the project and the todo carry the persisted
\* ids and flags and the placeholders.
C13_Witness ==
    /\ HoldsBlob
    /\ Len(localStorage[1].projects) = 1
    /\ localStorage[1].projects[1].name = ""
    /\ projectManager = Reloaded
    /\ Len(ProjectAt(projectManager, 1).todos) = 1
    /\ ProjectAt(projectManager, 1).id = MaxIds + 1
    /\ ProjectAt(projectManager, 1).name = "Untitled Project"
    /\ ProjectAt(projectManager, 1).todos[1].title = "Untitled Todo"
    /\ ProjectAt(projectManager, 1).todos[1].completed

(* ------------------------------ C14 ----------------------------------- *)

\* C14: corrupt persisted state is indistinguishable from absent state.  For
\* every stored value that is not a valid blob (unparseable text, or JSON
\* that is not an object with a projects array of project records)
\* loadFromStorage raises no exception and leaves the manager as it does
\* when nothing is stored.
C14_CorruptLoadsAsAbsent ==
    /\ phase # "threw"
    /\ (localStorage # <<>> /\ IsRaw(localStorage[1])) =>
          /\ ~LoadThrows(StorageLoad(localStorage))
          /\ Reloaded = loadFromStorage(projectManager, <<>>)

(* ------------------------------ C15 ----------------------------------- *)

\* What a saveToStorage that succeeds leaves stored, given what was stored.
StoredAfterSave == StorageSaveWhen(localStorage, SaveData(projectManager), FALSE)

\* The stored blob is the image of the manager pm: defaultProjectId and, in
\* order, every project with id, name and todos, every todo with its seven
\* fields, and no other field.
BlobOf(blob, pm) ==
    /\ DOMAIN blob = {"defaultProjectId", "projects"}
    /\ blob.defaultProjectId =
         IF pm.defaultProject = Null THEN Null ELSE pm.heap[pm.defaultProject].id
    /\ Len(blob.projects) = Len(pm.projects)
    /\ \A i \in 1..Len(pm.projects) :
         LET p == blob.projects[i]
             q == ProjectAt(pm, i)
         IN  /\ DOMAIN p = {"id", "name", "todos"}
             /\ p.id = q.id
             /\ p.name = q.name
             /\ Len(p.todos) = Len(q.todos)
             /\ \A j \in 1..Len(q.todos) :
                  /\ DOMAIN p.todos[j] = {"id", "title", "description", "dueDate",
                                          "priority", "completed", "expanded"}
                  /\ p.todos[j].id = q.todos[j].id
                  /\ p.todos[j].title = q.todos[j].title
                  /\ p.todos[j].description = q.todos[j].description
                  /\ p.todos[j].dueDate = DateToJSON(q.todos[j].dueDate)
                  /\ p.todos[j].priority = q.todos[j].priority
                  /\ p.todos[j].completed = q.todos[j].completed
                  /\ p.todos[j].expanded = q.todos[j].expanded

\* C15: after a successful saveToStorage the single stored blob is determined
\* by the current manager state alone: defaultProjectId and, in order, every
\* current project with id, name and todos; nothing of the blob stored before
\* survives, activeProject is not stored, and the save does not change the
\* manager.
C15_SaveOverwritesWithCurrentState ==
    /\ [](/\ Len(StoredAfterSave) = 1
          /\ BlobOf(StoredAfterSave[1], projectManager)
          /\ ENABLED SaveToStorage)
    /\ [][SaveToStorage =>
            /\ localStorage' = StoredAfterSave
            /\ projectManager' = projectManager]_vars

\* C15 witness: every identifier was handed out, one project is left after
\* deletions, and the stored blob is the image of that manager.
C15_Witness ==
    /\ nextId = MaxIds + 1
    /\ Len(projectManager.projects) = 1
    /\ localStorage # <<>>
    /\ BlobOf(localStorage[1], projectManager)
    /\ Len(savedFrom.projects) = 1

(* ------------------------------ C16 ----------------------------------- *)

\* The blob saveToStorage wrote from the manager state recorded in savedFrom.
SavedBlob ==
    [ defaultProjectId |-> savedFrom.defaultProjectId,
      projects |-> [i \in 1..Len(savedFrom.projects) |->
                       ProjectToJSON(savedFrom.projects[i])] ]

\* A blob is stored and saveToStorage wrote it.
HoldsOwnBlob == HoldsBlob /\ localStorage[1] \notin ForeignBlobs

\* C16: Storage.save, and so saveToStorage, never propagates an exception:
\* when serialization or the write fails the call returns normally, the
\* manager is unchanged, and the stored value is still the one the last
\* successful save wrote (or absent), never a partial write.
C16_FailedSaveKeepsLastSave ==
    /\ [](/\ \A writeFails \in BOOLEAN : ENABLED SaveToStorageWhen(writeFails)
          /\ StorageSaveWhen(localStorage, SaveData(projectManager), TRUE)
                = localStorage
          /\ HoldsOwnBlob => localStorage[1] = SavedBlob)
    /\ [][\A writeFails \in BOOLEAN :
            SaveToStorageWhen(writeFails) =>
                /\ projectManager' = projectManager
                /\ phase' = "returned"
                /\ writeFails => localStorage' = localStorage]_vars

\* C16 witness: the stored blob is the one the last successful save wrote, of
\* a manager with one project, and the manager has since grown to two.
C16_Witness ==
    /\ HoldsOwnBlob
    /\ localStorage[1] = SavedBlob
    /\ Len(savedFrom.projects) = 1
    /\ Len(projectManager.projects) = 2
    /\ phase = "returned"

(* ------------------------------ C17 ----------------------------------- *)

\* C17: Storage.load never throws.  It returns null when nothing is stored
\* under the key, when reading fails, or when the stored text cannot be
\* parsed; otherwise it returns the parsed value of the last successful
\* save; after Storage.clear it returns null.  (removeItem fails only when
\* access to localStorage is denied, and then getItem fails as well.)
C17_LoadIsTotal ==
    /\ StorageLoadWhen(localStorage, TRUE) = <<>>
    /\ localStorage = <<>> => StorageLoadWhen(localStorage, FALSE) = <<>>
    /\ (localStorage # <<>> /\ IsRaw(localStorage[1])
            /\ localStorage[1].raw \in Unparseable)
          => StorageLoadWhen(localStorage, FALSE) = <<>>
    /\ HoldsOwnBlob => StorageLoadWhen(localStorage, FALSE) = <<SavedBlob>>
    /\ StorageLoadWhen(StorageSaveWhen(localStorage, SaveData(projectManager),
                                       FALSE), FALSE)
          = <<SaveData(projectManager)>>
    /\ \A denied \in BOOLEAN :
          StorageLoadWhen(StorageClearWhen(localStorage, denied), denied) = <<>>
    /\ \A readFails \in BOOLEAN :
          StorageLoadWhen(localStorage, readFails) \in {<<>>, localStorage}

\* C17 witness: the key holds text that JSON.parse rejects, and the manager,
\* which holds a project, is what a load leaves.
C17_Witness ==
    /\ localStorage = <<RawText("{corrupt")>>
    /\ Len(projectManager.projects) = 1
    /\ projectManager = Reloaded
    /\ phase = "returned"

(* ------------------------------ C18 ----------------------------------- *)

\* C18: Storage.exists() is true exactly when Storage.load() returns a
\* non-null value, and false after Storage.clear().
C18_ExistsIffLoadable ==
    /\ StorageExists(localStorage)
          <=> StorageLoadWhen(localStorage, FALSE) # <<>>
    /\ ~StorageExists(StorageClearWhen(localStorage, FALSE))

(* ------------------------------ C19 ----------------------------------- *)

\* C19: a Todo's title is never empty or whitespace-only in any reachable
\* state: construction and every write path of Todo (title setter,
\* updateData, the info setter, reconstruction by loadFromStorage) turn an
\* empty, whitespace-only, null or missing title into "Untitled Todo".
C19_TitleNeverBlank ==
    \A ref \in HeldProjects : \A i \in TodoPositions(ref) :
        ~Blank(projectManager.heap[ref].todos[i].title)

(* ------------------------------ C20 ----------------------------------- *)

\* Names with a non-whitespace character.
ProperNames == {"Work", " Work ", " Home ", "Untitled Project"}

\* Values given as a name: missing, null, empty, whitespace-only, proper.
NameValues == {Undefined, JsNull, "", "  "} \cup ProperNames

\* The name the stated rule stores for a given value.
StoredName(name) == IF name \in ProperNames THEN name ELSE "Untitled Project"

\* C20: a Project's name is never empty or whitespace-only: createProject
\* and setName store a name with a non-whitespace character unchanged and
\* "Untitled Project" for an empty, whitespace-only, null or missing one;
\* the same holds for the projects loadFromStorage rebuilds.
C20_NameNeverBlank ==
    /\ \A ref \in HeldProjects :
          projectManager.heap[ref].name \notin {Undefined, JsNull, "", "  "}
    /\ \A name \in NameValues :
          LET qm == createProject(projectManager, nextId, name)
          IN  ProjectAt(qm, Len(qm.projects)).name = StoredName(name)
    /\ \A ref \in HeldProjects : \A name \in NameValues :
          setName(projectManager.heap[ref], name).name = StoredName(name)
    /\ HoldsBlob =>
          /\ Len(Reloaded.projects) = Len(localStorage[1].projects)
          /\ \A i \in 1..Len(localStorage[1].projects) :
                ProjectAt(Reloaded, i).name
                    = StoredName(localStorage[1].projects[i].name)

\* C20 witness: the manager was loaded from a blob whose projects are named
\* " Home " and "  "; the first kept its name, the second got the placeholder.
C20_Witness ==
    /\ HoldsBlob
    /\ Len(localStorage[1].projects) = 2
    /\ localStorage[1].projects[2].name = "  "
    /\ projectManager = Reloaded
    /\ ProjectAt(projectManager, 1).name = " Home "
    /\ ProjectAt(projectManager, 2).name = "Untitled Project"
    /\ phase = "returned"

(* ------------------------------ C21 ----------------------------------- *)

\* Patches for updateData: each field omitted (undefined) or given, the
\* title also blank, the description also empty, the dueDate also null.
PartialPatches ==
    [ title       : {Undefined, "  ", "Call home"},
      description : {Undefined, ""},
      dueDate     : {Undefined, JsNull, "2025-11-01"},
      priority    : {Undefined, LOW} ]

\* C21: updateData(patch) is a partial update: title, description, dueDate
\* and priority are overwritten only when the patch gives a value other than
\* undefined (the title coerced to non-blank) and are unchanged otherwise; a
\* null dueDate clears the dueDate, an empty description is stored as empty;
\* id, completed and expanded never change.
C21_UpdateDataIsPartial ==
    \A ref \in HeldProjects : \A i \in TodoPositions(ref) :
        \A patch \in PartialPatches :
            LET todo == projectManager.heap[ref].todos[i]
                upd  == updateData(todo, patch)
            IN  /\ upd.id = todo.id
                /\ upd.completed = todo.completed
                /\ upd.expanded = todo.expanded
                /\ upd.title = CASE patch.title = Undefined -> todo.title
                                 [] patch.title = "  " -> "Untitled Todo"
                                 [] OTHER -> patch.title
                /\ upd.description = IF patch.description = Undefined
                                     THEN todo.description ELSE patch.description
                /\ upd.dueDate = CASE patch.dueDate = Undefined -> todo.dueDate
                                   [] patch.dueDate = JsNull -> JsNull
                                   [] OTHER -> DateObject(patch.dueDate)
                /\ upd.priority = IF patch.priority = Undefined
                                  THEN todo.priority ELSE patch.priority

\* C21 witness: a todo created with title, description, dueDate and urgent
\* priority was given the patch {description: "", dueDate: null}: those two
\* are overwritten, title and priority are as created.
C21_Witness ==
    \E ref \in HeldProjects : \E i \in TodoPositions(ref) :
        LET todo == projectManager.heap[ref].todos[i]
        IN  /\ todo.title = "Finish report"
            /\ todo.priority = URGENT
            /\ todo.description = ""
            /\ todo.dueDate = JsNull

(* ------------------------------ C22 ----------------------------------- *)

\* Arguments for createTodo: all omitted, only a title, all four given.
CreateTodoArguments ==
    { <<Undefined, Undefined, Undefined, Undefined>>,
      <<"Call home", Undefined, Undefined, Undefined>>,
      <<"Finish report", "Work task", "2025-11-01", URGENT>> }

\* Every id a project or a todo of the manager carries.
IdsInUse ==
    { projectManager.heap[ref].id : ref \in HeldProjects }
        \cup UNION { { projectManager.heap[ref].todos[i].id :
                          i \in TodoPositions(ref) } : ref \in HeldProjects }

\* C22: Project.createTodo always succeeds: it appends exactly one new Todo
\* at the end of the project's todos, the existing todos keeping order and
\* contents, and returns it; the new Todo has a fresh id, completed = false,
\* expanded = false, and for omitted inputs title = "Untitled Todo",
\* description = "", priority = Important, dueDate = null.
C22_CreateTodoAppendsOne ==
    \A ref \in HeldProjects : \A in \in CreateTodoArguments :
        LET project == projectManager.heap[ref]
            after   == createTodo(project, nextId, in[1], in[2], in[3], in[4])
            n       == Len(project.todos)
            todo    == after.todos[n + 1]
        IN  /\ Len(after.todos) = n + 1
            /\ SubSeq(after.todos, 1, n) = project.todos
            /\ after.id = project.id
            /\ after.name = project.name
            /\ todo.id = nextId
            /\ todo.id \notin IdsInUse
            /\ ~todo.completed
            /\ ~todo.expanded
            /\ todo.title = IF in[1] = Undefined THEN "Untitled Todo" ELSE in[1]
            /\ todo.description = IF in[2] = Undefined THEN "" ELSE in[2]
            /\ todo.dueDate = IF in[3] = Undefined THEN JsNull
                              ELSE DateObject(in[3])
            /\ todo.priority = IF in[4] = Undefined THEN IMPORTANT ELSE in[4]

\* C22 witness: the object created last is a todo made with no arguments; it
\* is the only todo of its project and carries every default.
C22_Witness ==
    \E ref \in HeldProjects :
        /\ Len(projectManager.heap[ref].todos) = 1
        /\ projectManager.heap[ref].todos[1] =
              [ id |-> nextId - 1, title |-> "Untitled Todo",
                description |-> "", dueDate |-> JsNull,
                priority |-> IMPORTANT, completed |-> FALSE,
                expanded |-> FALSE ]

(* ------------------------------ C23 ----------------------------------- *)

\* The sequence without its k-th element.
Without(seq, k) == SubSeq(seq, 1, k - 1) \o SubSeq(seq, k + 1, Len(seq))

C24_DeleteAllKeepsDefault ==
    LET qm == deleteAllProjects(projectManager)
    IN  /\ qm.projects = <<>>
        /\ qm.activeProject = Null
        /\ qm.defaultProject = projectManager.defaultProject
        /\ qm.defaultProject # Null =>
              /\ qm.heap[qm.defaultProject]
                    = projectManager.heap[projectManager.defaultProject]
              /\ qm.defaultProject \notin Contained(qm)
              /\ isDefaultProject(qm, IdOf(projectManager,
                                           projectManager.defaultProject))

\* C24 witness: no project is contained, none is active, and the default
\* project is still set.
C24_Witness ==
    /\ projectManager.projects = <<>>
    /\ projectManager.activeProject = Null
    /\ projectManager.defaultProject # Null
    /\ isDefaultProject(projectManager,
                        IdOf(projectManager, projectManager.defaultProject))

(* ------------------------------ C25 ----------------------------------- *)

\* The todos of the manager: <<project reference, position>> of each.
TodoPlaces ==
    UNION { { <<ref, i>> : i \in TodoPositions(ref) } : ref \in HeldProjects }

KeepsIds(qm) ==
    \A ref \in Contained(projectManager) \cap DOMAIN qm.heap :
        qm.heap[ref].id = projectManager.heap[ref].id

\* C26: the id of a project contained in projects never changes: no create,
\* delete, rename, role-selection or save operation changes the id of an
\* existing project (loadFromStorage sets ids only on the projects it has
\* just constructed; that saveToStorage leaves the manager as it is, is part
\* of C15).
C26_ContainedIdNeverChanges ==
    /\ \A name \in NameInputs :
          KeepsIds(createProject(projectManager, nextId, name))
    /\ \A id \in IdInputs :
          /\ KeepsIds(deleteProjectById(projectManager, id))
          /\ KeepsIds(setActiveProject(projectManager, id))
          /\ KeepsIds(setDefaultProject(projectManager, id))
    /\ KeepsIds(deleteAllProjects(projectManager))
    /\ \A ref \in Contained(projectManager) :
          LET project == projectManager.heap[ref]
          IN  /\ \A name \in NameInputs :
                    setName(project, name).id = project.id
              /\ \A in \in TodoInputs :
                    createTodo(project, nextId, in[1], in[2], in[3], in[4]).id
                        = project.id
              /\ \A id \in TodoIdInputs(ref) :
                    deleteTodoById(project, id).id = project.id

\* C26 witness: three projects were created, the second was deleted, the
\* third was made active and the default was toggled off; the two projects
\* left carry the ids they were constructed with.
C26_Witness ==
    /\ phase = "build"
    /\ nextId = MaxIds + 1
    /\ Len(projectManager.projects) = 2
    /\ ProjectAt(projectManager, 1).id = 1
    /\ ProjectAt(projectManager, 2).id = MaxIds
    /\ projectManager.activeProject = projectManager.projects[2]
    /\ projectManager.defaultProject = Null

(* ------------------------------ C27 ----------------------------------- *)

\* The manager a fresh page obtains from the blob this manager saves.
FreshReload ==
    loadFromStorage(ProjectManager,
                    StorageLoad(StorageSave(SaveData(projectManager))))

\* C27: saving is stable under reload: for every reachable manager state,
\* saveToStorage, loadFromStorage on a fresh manager and saveToStorage on
\* that manager store a blob identical to the first one, also when
\* defaultProject is null while projects is non-empty.
C27_SaveIsStableUnderReload ==
    StorageSave(SaveData(FreshReload)) = StorageSave(SaveData(projectManager))

(* ------------------------------ C28 ----------------------------------- *)

\* C28: in every state reachable through the controller (initApp and any
\* sequence of its event handlers), whenever projects is non-empty
\* activeProject is non-null and contained in projects.
C28_ActiveWhileAnyProject ==
    Len(projectManager.projects) > 0 =>
        /\ projectManager.activeProject # Null
        /\ projectManager.activeProject \in Contained(projectManager)

\* C28 witness: of two projects the first, which was active, has just been
\* deleted through its dialog; the remaining one is active.
C28_Witness ==
    /\ phase = "deleteProjectSubmit"
    /\ Len(projectManager.projects) = 1
    /\ ProjectAt(projectManager, 1).id = 2
    /\ nextId = 3
    /\ projectManager.activeProject = projectManager.projects[1]

(* ------------------------------ C29 ----------------------------------- *)

\* C29: in every state reachable through the controller's handlers a todo
\* whose description is empty or whitespace-only has expanded = false.
C29_BlankDescriptionNeverExpanded ==
    \A place \in TodoPlaces :
        LET todo == projectManager.heap[place[1]].todos[place[2]]
        IN  Blank(todo.description) => ~todo.expanded

(* ------------------------------ C30 ----------------------------------- *)

\* C30: deleteProjectById(id) with an id that matches no project currently
\* in projects is a no-op in every reachable state: projects, activeProject
\* and defaultProject are all unchanged.
C30_DeleteOfAbsentIdIsNoOp ==
    \A id \in IdInputs :
        ProjectWithId(projectManager, id) = Null =>
            LET qm == deleteProjectById(projectManager, id)
            IN  /\ qm.projects = projectManager.projects
                /\ qm.activeProject = projectManager.activeProject
                /\ qm.defaultProject = projectManager.defaultProject

====
